---- MODULE Spec2Model ----
(***************************************************************************)
(* Model of princeton3/SPE3read.py: the SPE3map decoder.                   *)
(*                                                                         *)
(* A file is modelled by its length in bytes, the float32 stored at byte   *)
(* 1992 (in thousandths), and what xmltodict finds from the footer offset  *)
(* to the end of the stream.  A sample read from the file is identified    *)
(* with the absolute byte offset it was read from, so that "the data read  *)
(* starting at byte p" is a value the model can compare.                   *)
(*                                                                         *)
(* Assertions are modelled as enabled (the module's shebang runs python3   *)
(* without -O).                                                            *)
(***************************************************************************)
EXTENDS Integers, Sequences, FiniteSets, TLC

VARIABLES
    pc,           \* position of the single thread of control
    inCtor,       \* readData() was called from __init__
    held,         \* the caller holds a reference to the object
    _fid,          \* self._fid and the stream behind it
    self,         \* the decoded attributes of the object
    defined,      \* names of the attributes that exist on self
    outcome,      \* result of the last readData() pass that ended
    err,          \* exception that ended __init__ or the last failed pass
    callErr,      \* exception the last openFile/saveXMLinfo call raised
    passFid,      \* history: self._fid as the current pass began
    steps,        \* history: steps of the current pass that completed
    reads,        \* history: typed reads issued in the current pass
    setInPass,    \* history: attributes assigned by the current pass
    passes,       \* number of readData() passes started
    xmlOut        \* the file saveXMLinfo writes

vars == <<pc, inCtor, held, _fid, self, defined, outcome, err, callErr,
          passFid, steps, reads, setInPass, passes, xmlOut>>

-----------------------------------------------------------------------------
(* Program constants *)

SPEVERSIONOFFSET == 1992
XMLFOOTEROFFSETPOS == 678
DATAOFFSET == 4100

\* assert(self.SPEversion >= 3), in thousandths
MinVersionMilli == 3000

\* numpy item sizes of the types the reader is called with
Float32Bytes == 4
Uint64Bytes == 8

-----------------------------------------------------------------------------
(* Bounds of the input space *)

MaxCount == 2
MaxHeight == 2
MaxPasses == 2

Counts == -1 .. MaxCount
Heights == 1 .. MaxHeight
Widths == {2, 4}
Sizes == {8, 9}
Strides == {8, 16}
FileLens == {4104, 4116}
Versions == {2999, 3000}
PixelFormats == {"MonochromeUnsigned16", "MonochromeFloat32", "Bogus"}
BlockTypes == {"Frame", "Other"}
RegionTypes == {"Region", "Other"}
\* <<>> stands for a footer without the Wavelength element
WavelengthTexts == {<<"400.0", "400.5">>, <<"400.0", "abc">>, <<>>}
ExposureTexts == {"0.5", "abc"}

GoodFooter ==
    [wellFormed |-> TRUE, wavelengthStr |-> <<"400.0", "400.5">>,
     blockType |-> "Frame", count |-> 2,
     pixelFormat |-> "MonochromeUnsigned16", size |-> 8, stride |-> 8,
     regionType |-> "Region", height |-> 1, width |-> 4,
     exposureStr |-> "0.5"]

\* what is left of a footer that does not parse
NoFooter == [GoodFooter EXCEPT !.wellFormed = FALSE]

BaseFile == [len |-> 4116, version |-> 3000, footer |-> GoodFooter]

\* files that differ from BaseFile in the frame layout only
LayoutFiles ==
    { [BaseFile EXCEPT !.len = l,
                       !.footer = [GoodFooter EXCEPT !.count = c,
                                       !.pixelFormat = p, !.size = s,
                                       !.stride = st, !.height = h,
                                       !.width = w]] :
        l \in FileLens, c \in Counts, p \in PixelFormats, s \in Sizes,
        st \in Strides, h \in Heights, w \in Widths }

\* files that differ from BaseFile in what makes a step of readData raise
DefectFiles ==
    { [BaseFile EXCEPT !.version = v,
                       !.footer = [GoodFooter EXCEPT !.wavelengthStr = wl,
                                       !.blockType = bt, !.pixelFormat = p,
                                       !.regionType = rt,
                                       !.exposureStr = ex]] :
        v \in Versions, wl \in WavelengthTexts, bt \in BlockTypes,
        p \in PixelFormats, rt \in RegionTypes, ex \in ExposureTexts }
    \cup { [BaseFile EXCEPT !.version = v, !.footer = NoFooter] :
             v \in Versions }

\* a file that ends before the version field
StubFile == [BaseFile EXCEPT !.len = 1000]

Files == LayoutFiles \cup DefectFiles \cup {StubFile}

\* the files openFile() is given on an object that already exists
OtherFile ==
    [BaseFile EXCEPT !.footer = [GoodFooter EXCEPT !.count = 1,
                                     !.pixelFormat = "MonochromeFloat32",
                                     !.width = 2,
                                     !.wavelengthStr = <<"400.5", "400.0">>]]
ShortFile == [BaseFile EXCEPT !.footer = [GoodFooter EXCEPT !.stride = 16]]
OldFile == [BaseFile EXCEPT !.version = 2999]
DiskFiles == {BaseFile, OtherFile, ShortFile, OldFile}

\* the attribute values before any assignment (none is in `defined`)
NoSelf ==
    [SPEversion |-> 0, _footerInfo |-> NoFooter, wavelength |-> <<>>,
     nbOfFrames |-> 0, dataType |-> [name |-> "none", nbytes |-> 1],
     frameSize |-> 0, frameStride |-> 0, regionSize |-> <<0, 0>>,
     exposureTime |-> 0, data |-> <<>>]

NoOut == [state |-> "absent", doc |-> NoFooter]

NoErr == [type |-> "none", step |-> "none"]
\* self._fid = None; openedBy tells who opened a stream: "__init__" (through
\* openFile), "openFile" (called by the holder of the object) or "caller"
NoFid == [set |-> FALSE, open |-> FALSE, openedBy |-> "nobody",
          file |-> BaseFile]

-----------------------------------------------------------------------------
(* Pure helpers *)

Min(a, b) == IF a < b THEN a ELSE b
Max(a, b) == IF a > b THEN a ELSE b

\* int(a / b) for b > 0: true division, then truncation towards zero
IntOfQuotient(a, b) == IF a >= 0 THEN a \div b ELSE -((-a) \div b)

\* float(): the texts the model's footers hold, in thousandths
FloatTable ==
    [t \in {"400.0", "400.5", "0.5"} |->
        CASE t = "400.0" -> 400000
          [] t = "400.5" -> 400500
          [] t = "0.5" -> 500]
IsFloat(t) == t \in DOMAIN FloatTable
ParseFloat(t) == FloatTable[t]

\* possibleDataTypes: name -> numpy type, given by its item size
possibleDataTypes ==
    [n \in {"MonochromeUnsigned16", "MonochromeUnsigned32",
            "MonochromeFloat32", "MonochromeFloating32"} |->
        CASE n = "MonochromeUnsigned16" -> [name |-> "uint16", nbytes |-> 2]
          [] n = "MonochromeUnsigned32" -> [name |-> "uint32", nbytes |-> 4]
          [] n = "MonochromeFloat32" -> [name |-> "float32", nbytes |-> 4]
          [] n = "MonochromeFloating32" -> [name |-> "float32", nbytes |-> 4]]
NoType == [name |-> "none", nbytes |-> 1]

\* pl.fromfile(self._fid, ntype, n) after seek(pos): the items returned.
\* A negative n asks for every item up to the end of the stream; a stream
\* that ends early yields the items it has, without an error.
ItemsRead(len, pos, n, nbytes) ==
    LET avail == Max(0, len - pos) \div nbytes
    IN IF n < 0 THEN avail ELSE Min(n, avail)

\* the samples of a read, each named by the byte offset it came from
Samples(pos, k, nbytes) == [i \in 1 .. k |-> pos + (i - 1) * nbytes]

\* ndarray.reshape((h, w)) of k items succeeds
ReshapeOK(k, h, w) ==
    CASE h >= 0 /\ w >= 0 -> h * w = k
      [] h = -1 /\ w > 0 -> k % w = 0
      [] w = -1 /\ h > 0 -> k % h = 0
      [] OTHER -> FALSE

\* the shape reshape((h, w)) gives k items
ReshapeShape(k, h, w) ==
    CASE h = -1 /\ w > 0 -> <<k \div w, w>>
      [] w = -1 /\ h > 0 -> <<h, k \div h>>
      [] OTHER -> <<h, w>>

-----------------------------------------------------------------------------
(* readData(): the order of its steps, and how a step ends *)

\* readData() with _readArray() called before _readRegionSize()
NextStep_ArrayBeforeRegion(s) ==
    CASE s = "_readSPEversion" -> "checkVersion"
      [] s = "checkVersion" -> "_readXMLfooter"
      [] s = "_readXMLfooter" -> "_readWavelengths"
      [] s = "_readWavelengths" -> "_readFramesInfo"
      [] s = "_readFramesInfo" -> "_readArray"
      [] s = "_readArray" -> "_readRegionSize"
      [] s = "_readRegionSize" -> "_readExposureTime"
      [] s = "_readExposureTime" -> "return"

\* the step readData() runs after step s ("return" after the last one)
NextStep(s) ==
    CASE s = "_readSPEversion" -> "checkVersion"
      [] s = "checkVersion" -> "_readXMLfooter"
      [] s = "_readXMLfooter" -> "_readWavelengths"
      [] s = "_readWavelengths" -> "_readFramesInfo"
      [] s = "_readFramesInfo" -> "_readRegionSize"
      [] s = "_readRegionSize" -> "_readExposureTime"
      [] s = "_readExposureTime" -> "_readArray"
      [] s = "_readArray" -> "return"

\* readData() without its assertion
VersionOK_Unchecked(v) == TRUE

\* assert(self.SPEversion >= 3)
VersionOK(v) == v >= MinVersionMilli

\* a lookup that falls back to a default type instead of raising
KnownPixelFormat_Default(n) == TRUE

\* dataTypeName is a key of possibleDataTypes
KnownPixelFormat(n) == n \in DOMAIN possibleDataTypes
LookupType(n) == IF n \in DOMAIN possibleDataTypes
                 THEN possibleDataTypes[n] ELSE NoType

\* what seek() on self._fid raises, if anything
StreamErr ==
    CASE ~_fid.set -> "AttributeError"
      [] _fid.set /\ ~_fid.open -> "ValueError"
      [] OTHER -> "none"

\* the entry of the read log for _readAtNumpy(pos, n, ntype) issued by step
ReadEntry(step, pos, n, nbytes) ==
    [by |-> step, pos |-> pos, count |-> n,
     got |-> ItemsRead(_fid.file.len, pos, n, nbytes)]

\* a step raises: the exception leaves readData(); out of __init__ it leaves
\* the constructor too, before self._fid.close(), and no object is returned
Fail(type, step) ==
    /\ err' = [type |-> type, step |-> step]
    /\ outcome' = "Failed"
    /\ pc' = IF inCtor THEN "raised" ELSE "idle"
    /\ held' = IF inCtor THEN FALSE ELSE held
    /\ inCtor' = FALSE
    /\ UNCHANGED <<steps, passes, _fid, xmlOut, callErr, passFid>>

\* a step returns: readData() goes on to the next one, or returns
Complete(step) ==
    /\ steps' = Append(steps, step)
    /\ pc' = IF NextStep(step) = "return"
             THEN (IF inCtor THEN "close" ELSE "idle")
             ELSE NextStep(step)
    /\ outcome' = IF NextStep(step) = "return" THEN "Decoded" ELSE outcome
    /\ UNCHANGED <<err, held, inCtor, passes, _fid, xmlOut, callErr,
                   passFid>>

\* self.<name> = ... of the attributes in names
Assign(names) ==
    /\ defined' = defined \cup names
    /\ setInPass' = setInPass \cup names

NoAssign == UNCHANGED <<self, defined, setInPass>>

-----------------------------------------------------------------------------
(* The steps of readData() *)

_readSPEversion ==
    /\ pc = "_readSPEversion"
    /\ IF StreamErr # "none"
       THEN Fail(StreamErr, "_readSPEversion") /\ NoAssign /\ UNCHANGED reads
       ELSE LET k == ItemsRead(_fid.file.len, SPEVERSIONOFFSET, 1,
                               Float32Bytes)
            IN /\ reads' = Append(reads, ReadEntry("_readSPEversion",
                                     SPEVERSIONOFFSET, 1, Float32Bytes))
               /\ IF k = 0
                  THEN Fail("IndexError", "_readSPEversion") /\ NoAssign
                  ELSE /\ self' = [self EXCEPT
                                     !.SPEversion = _fid.file.version]
                       /\ Assign({"SPEversion"})
                       /\ Complete("_readSPEversion")

CheckVersion ==
    /\ pc = "checkVersion"
    /\ NoAssign
    /\ UNCHANGED reads
    /\ IF "SPEversion" \notin defined
       THEN Fail("AttributeError", "checkVersion")
       ELSE IF VersionOK(self.SPEversion)
            THEN Complete("checkVersion")
            ELSE Fail("AssertionError", "checkVersion")

_readXMLfooter ==
    /\ pc = "_readXMLfooter"
    /\ IF StreamErr # "none"
       THEN Fail(StreamErr, "_readXMLfooter") /\ NoAssign /\ UNCHANGED reads
       ELSE LET k == ItemsRead(_fid.file.len, XMLFOOTEROFFSETPOS, 1,
                               Uint64Bytes)
            IN /\ reads' = Append(reads, ReadEntry("_readXMLfooter",
                                     XMLFOOTEROFFSETPOS, 1, Uint64Bytes))
               /\ IF k = 0
                  THEN Fail("IndexError", "_readXMLfooter") /\ NoAssign
                  ELSE IF ~_fid.file.footer.wellFormed
                       THEN Fail("ExpatError", "_readXMLfooter") /\ NoAssign
                       ELSE /\ self' = [self EXCEPT
                                          !._footerInfo = _fid.file.footer]
                            /\ Assign({"_footerInfo"})
                            /\ Complete("_readXMLfooter")

_readWavelengths ==
    /\ pc = "_readWavelengths"
    /\ UNCHANGED reads
    /\ IF "_footerInfo" \notin defined
       THEN Fail("AttributeError", "_readWavelengths") /\ NoAssign
       ELSE LET str == self._footerInfo.wavelengthStr
            IN IF str = <<>>
               THEN Fail("KeyError", "_readWavelengths") /\ NoAssign
               ELSE IF \E i \in 1 .. Len(str) : ~IsFloat(str[i])
                    THEN Fail("ValueError", "_readWavelengths") /\ NoAssign
                    ELSE /\ self' = [self EXCEPT !.wavelength =
                                  [i \in 1 .. Len(str) |-> ParseFloat(str[i])]]
                         /\ Assign({"wavelength"})
                         /\ Complete("_readWavelengths")

\* nbOfFrames is assigned before the pixel format is looked up
_readFramesInfo ==
    /\ pc = "_readFramesInfo"
    /\ UNCHANGED reads
    /\ IF "_footerInfo" \notin defined
       THEN Fail("AttributeError", "_readFramesInfo") /\ NoAssign
       ELSE LET f == self._footerInfo
            IN IF f.blockType # "Frame"
               THEN Fail("AssertionError", "_readFramesInfo") /\ NoAssign
               ELSE IF ~KnownPixelFormat(f.pixelFormat)
                    THEN /\ self' = [self EXCEPT !.nbOfFrames = f.count]
                         /\ Assign({"nbOfFrames"})
                         /\ Fail("KeyError", "_readFramesInfo")
                    ELSE /\ self' = [self EXCEPT
                                  !.nbOfFrames = f.count,
                                  !.dataType = LookupType(f.pixelFormat),
                                  !.frameSize = f.size,
                                  !.frameStride = f.stride]
                         /\ Assign({"nbOfFrames", "dataType", "frameSize",
                                    "frameStride"})
                         /\ Complete("_readFramesInfo")

_readRegionSize ==
    /\ pc = "_readRegionSize"
    /\ UNCHANGED reads
    /\ IF "_footerInfo" \notin defined
       THEN Fail("AttributeError", "_readRegionSize") /\ NoAssign
       ELSE LET f == self._footerInfo
            IN IF f.regionType # "Region"
               THEN Fail("AssertionError", "_readRegionSize") /\ NoAssign
               ELSE /\ self' = [self EXCEPT
                                  !.regionSize = <<f.height, f.width>>]
                    /\ Assign({"regionSize"})
                    /\ Complete("_readRegionSize")

_readExposureTime ==
    /\ pc = "_readExposureTime"
    /\ UNCHANGED reads
    /\ IF "_footerInfo" \notin defined
       THEN Fail("AttributeError", "_readExposureTime") /\ NoAssign
       ELSE LET str == self._footerInfo.exposureStr
            IN IF ~IsFloat(str)
               THEN Fail("ValueError", "_readExposureTime") /\ NoAssign
               ELSE /\ self' = [self EXCEPT !.exposureTime = ParseFloat(str)]
                    /\ Assign({"exposureTime"})
                    /\ Complete("_readExposureTime")

-----------------------------------------------------------------------------
(* _readArray(), as a function of the attributes it reads *)

\* start of record frameNb, and the item count handed to _readAtNumpy
FramePos(frameNb) == DATAOFFSET + frameNb * self.frameStride
FrameItems == IntOfQuotient(self.frameSize, self.dataType.nbytes)

\* the items frame frameNb's read returns
FrameRead(frameNb) ==
    ItemsRead(_fid.file.len, FramePos(frameNb), FrameItems,
              self.dataType.nbytes)

\* what iteration frameNb of the loop raises, if anything
FrameErr(frameNb) ==
    CASE FramePos(frameNb) < 0 -> "OSError"
      [] FramePos(frameNb) >= 0 /\ "regionSize" \notin defined
           -> "AttributeError"
      [] FramePos(frameNb) >= 0 /\ "regionSize" \in defined
         /\ ~ReshapeOK(FrameRead(frameNb), self.regionSize[1],
                       self.regionSize[2]) -> "ValueError"
      [] OTHER -> "none"

\* frameData.reshape(self.regionSize)
Frame(frameNb) ==
    [shape |-> ReshapeShape(FrameRead(frameNb), self.regionSize[1],
                            self.regionSize[2]),
     samples |-> Samples(FramePos(frameNb), FrameRead(frameNb),
                         self.dataType.nbytes)]

\* the first frame number from frameNb on whose iteration raises
\* (nbOfFrames when none does): for frameNb in range(self.nbOfFrames)
RECURSIVE FirstBad(_)
FirstBad(frameNb) ==
    IF frameNb >= self.nbOfFrames THEN Max(self.nbOfFrames, 0)
    ELSE IF FrameErr(frameNb) # "none" THEN frameNb
    ELSE FirstBad(frameNb + 1)

_readArray ==
    /\ pc = "_readArray"
    /\ Assign({"data"})
    /\ IF "nbOfFrames" \notin defined
       THEN /\ self' = [self EXCEPT !.data = <<>>]
            /\ UNCHANGED reads
            /\ Fail("AttributeError", "_readArray")
       ELSE IF self.nbOfFrames <= 0
       THEN /\ self' = [self EXCEPT !.data = <<>>]
            /\ UNCHANGED reads
            /\ Complete("_readArray")
       ELSE IF {"frameStride", "frameSize", "dataType"} \ defined # {}
       THEN /\ self' = [self EXCEPT !.data = <<>>]
            /\ UNCHANGED reads
            /\ Fail("AttributeError", "_readArray")
       ELSE IF StreamErr # "none"
       THEN /\ self' = [self EXCEPT !.data = <<>>]
            /\ UNCHANGED reads
            /\ Fail(StreamErr, "_readArray")
       ELSE LET good == FirstBad(0)
                tried == IF good < self.nbOfFrames THEN good + 1 ELSE good
            IN /\ self' = [self EXCEPT !.data =
                             [i \in 1 .. good |-> Frame(i - 1)]]
               /\ reads' = reads \o
                     [i \in 1 .. tried |->
                         ReadEntry("_readArray", FramePos(i - 1), FrameItems,
                                   self.dataType.nbytes)]
               /\ IF good < self.nbOfFrames
                  THEN Fail(FrameErr(good), "_readArray")
                  ELSE Complete("_readArray")

-----------------------------------------------------------------------------
(* __init__ *)

\* a pass of readData() begins
BeginPass(stream) ==
    /\ pc' = "_readSPEversion"
    /\ passFid' = stream
    /\ steps' = <<>>
    /\ reads' = <<>>
    /\ setInPass' = {}
    /\ passes' = passes + 1

\* SPE3map(fname): openFile(fname), then readData() and close().  A fid
\* given beside fname is dropped by the elif.
ConstructFname ==
    /\ pc = "new"
    /\ \E f \in Files :
          /\ _fid' = [set |-> TRUE, open |-> TRUE, openedBy |-> "__init__",
                     file |-> f]
          /\ BeginPass(_fid')
    /\ inCtor' = TRUE
    /\ UNCHANGED <<held, self, defined, outcome, err, callErr, xmlOut>>

\* SPE3map(fname) when open(fname, "rb") raises
ConstructFnameMissing ==
    /\ pc = "new"
    /\ pc' = "raised"
    /\ err' = [type |-> "IOError", step |-> "openFile"]
    /\ UNCHANGED <<inCtor, held, _fid, self, defined, outcome, callErr,
                   passFid, steps, reads, setInPass, passes, xmlOut>>

\* SPE3map(fid = stream): the caller's open stream
ConstructFid ==
    /\ pc = "new"
    /\ \E f \in Files :
          /\ _fid' = [set |-> TRUE, open |-> TRUE, openedBy |-> "caller",
                     file |-> f]
          /\ BeginPass(_fid')
    /\ inCtor' = TRUE
    /\ UNCHANGED <<held, self, defined, outcome, err, callErr, xmlOut>>

\* SPE3map(): nothing is opened or read
ConstructEmpty ==
    /\ pc = "new"
    /\ pc' = "idle"
    /\ held' = TRUE
    /\ UNCHANGED <<inCtor, _fid, self, defined, outcome, err, callErr,
                   passFid, steps, reads, setInPass, passes, xmlOut>>

\* self._fid.close(), reached only when readData() returned
Close ==
    /\ pc = "close"
    /\ _fid' = [_fid EXCEPT !.open = FALSE]
    /\ pc' = "idle"
    /\ held' = TRUE
    /\ inCtor' = FALSE
    /\ UNCHANGED <<self, defined, outcome, err, callErr, passFid, steps,
                   reads, setInPass, passes, xmlOut>>

-----------------------------------------------------------------------------
(* The public methods, called on an object the caller holds *)

\* openFile(fname): the stream held before is dropped, not closed
openFile ==
    /\ pc = "idle" /\ held
    /\ \E f \in DiskFiles :
          _fid' = [set |-> TRUE, open |-> TRUE, openedBy |-> "openFile",
                  file |-> f]
    /\ callErr' = "none"
    /\ UNCHANGED <<pc, inCtor, held, self, defined, outcome, err, passFid,
                   steps, reads, setInPass, passes, xmlOut>>

\* openFile(fname) when open(fname, "rb") raises: self._fid is not assigned
openFile_IOError ==
    /\ pc = "idle" /\ held
    /\ callErr' = "IOError"
    /\ UNCHANGED <<pc, inCtor, held, _fid, self, defined, outcome, err,
                   passFid, steps, reads, setInPass, passes, xmlOut>>

\* readData() called by the holder of the object
readData ==
    /\ pc = "idle" /\ held
    /\ passes < MaxPasses
    /\ BeginPass(_fid)
    /\ UNCHANGED <<inCtor, held, _fid, self, defined, outcome, err, callErr,
                   xmlOut>>

\* saveXMLinfo(filePath): open(filePath, "w") truncates the file before
\* self._footerInfo is looked up
saveXMLinfo ==
    /\ pc = "idle" /\ held
    /\ IF "_footerInfo" \in defined
       THEN /\ xmlOut' = [state |-> "written", doc |-> self._footerInfo]
            /\ callErr' = "none"
       ELSE /\ xmlOut' = [state |-> "empty", doc |-> NoFooter]
            /\ callErr' = "AttributeError"
    /\ UNCHANGED <<pc, inCtor, held, _fid, self, defined, outcome, err,
                   passFid, steps, reads, setInPass, passes>>

\* saveXMLinfo(filePath) when open(filePath, "w") raises
saveXMLinfo_IOError ==
    /\ pc = "idle" /\ held
    /\ callErr' = "IOError"
    /\ UNCHANGED <<pc, inCtor, held, _fid, self, defined, outcome, err,
                   passFid, steps, reads, setInPass, passes, xmlOut>>

-----------------------------------------------------------------------------

Init ==
    /\ pc = "new"
    /\ inCtor = FALSE
    /\ held = FALSE
    /\ _fid = NoFid
    /\ self = NoSelf
    /\ defined = {}
    /\ outcome = "none"
    /\ err = NoErr
    /\ callErr = "none"
    /\ passFid = NoFid
    /\ steps = <<>>
    /\ reads = <<>>
    /\ setInPass = {}
    /\ passes = 0
    /\ xmlOut = NoOut

Next ==
    \/ ConstructFname
    \/ ConstructFnameMissing
    \/ ConstructFid
    \/ ConstructEmpty
    \/ _readSPEversion
    \/ CheckVersion
    \/ _readXMLfooter
    \/ _readWavelengths
    \/ _readFramesInfo
    \/ _readRegionSize
    \/ _readExposureTime
    \/ _readArray
    \/ Close
    \/ openFile
    \/ openFile_IOError
    \/ readData
    \/ saveXMLinfo
    \/ saveXMLinfo_IOError

Spec == Init /\ [][Next]_vars

-----------------------------------------------------------------------------
(* Properties *)

\* a pass of readData() has ended (in __init__, possibly before close())
PassEnded == passes >= 1 /\ pc \in {"idle", "raised", "close"}

\* __init__ or the last public call has returned or raised
AtRest == pc \in {"idle", "raised"}

FrameReads == {i \in 1 .. Len(reads) : reads[i].by = "_readArray"}

\* C1: a stream the constructor opened (SPE3map(fname)) is closed once
\* construction has ended, whether readData() returned or raised.
C1_OpenedStreamClosed ==
    (AtRest /\ _fid.set /\ _fid.openedBy = "__init__") => ~_fid.open

\* C2: a stream the caller supplied (SPE3map(fid = stream)) is still open
\* once construction has ended, whether readData() returned or raised.
C2_CallerStreamLeftOpen ==
    (AtRest /\ _fid.set /\ _fid.openedBy = "caller") => _fid.open

\* the current pass read a version below 3.0 at offset 1992
C3_OldVersionRead ==
    "SPEversion" \in setInPass /\ self.SPEversion < MinVersionMilli

C4_Literals == {"MonochromeUnsigned16", "MonochromeUnsigned32",
                "MonochromeFloat32", "MonochromeFloating32"}

\* the file of the current pass has a footer whose pixelFormat is unrecognized
C4_Unrecognized ==
    /\ passes >= 1 /\ passFid.set
    /\ passFid.file.footer.wellFormed
    /\ passFid.file.footer.pixelFormat \notin C4_Literals

C4_PixelFormatError == [type |-> "KeyError", step |-> "_readFramesInfo"]

Decoded == PassEnded /\ outcome = "Decoded"

\* C5: after a successful decode the frame set holds exactly `count` frames,
\* frame i being the data read from byte 4100 + i * stride on.
C5_CountFramesInFileOrder ==
    Decoded =>
        /\ Len(self.data) = passFid.file.footer.count
        /\ \A i \in 1 .. Len(self.data) :
              self.data[i].samples =
                  Samples(DATAOFFSET + (i - 1) * passFid.file.footer.stride,
                          Len(self.data[i].samples), self.dataType.nbytes)

\* C5 restricted to the counts range() iterates over (count >= 0)
C5_HoldsForNonNegativeCount ==
    (Decoded /\ passFid.file.footer.count >= 0) =>
        /\ Len(self.data) = passFid.file.footer.count
        /\ \A i \in 1 .. Len(self.data) :
              /\ self.data[i].samples # <<>>
              /\ self.data[i].samples[1] =
                    DATAOFFSET + (i - 1) * passFid.file.footer.stride

\* C6: every frame of a successful decode has shape (height, width) and
\* holds frameSize / bytesPerElement samples.
C6_FrameShapeAndSize ==
    Decoded =>
        \A i \in 1 .. Len(self.data) :
            /\ self.data[i].shape = <<passFid.file.footer.height,
                                      passFid.file.footer.width>>
            /\ Len(self.data[i].samples) * self.dataType.nbytes
                   = passFid.file.footer.size

\* C7: after a failed pass the object the caller holds has none of
\* wavelength, nbOfFrames, regionSize, exposureTime, data assigned by it.
C7_NoPartialResult ==
    (pc = "idle" /\ held /\ passes >= 1 /\ outcome = "Failed") =>
        setInPass \cap {"wavelength", "nbOfFrames", "regionSize",
                        "exposureTime", "data"} = {}

\* C8: a typed read of `count` items returns exactly `count` items or
\* fails: a read the stream cut short makes the step that issued it raise,
\* it is never taken for a complete one.
C8_ShortReadFails ==
    PassEnded =>
        \A i \in 1 .. Len(reads) :
            (reads[i].count >= 0 /\ reads[i].got < reads[i].count) =>
                (outcome = "Failed" /\ err.step = reads[i].by)

C9_Order == <<"_readSPEversion", "checkVersion", "_readXMLfooter",
              "_readWavelengths", "_readFramesInfo", "_readRegionSize",
              "_readExposureTime", "_readArray">>

C9_StepNames == {C9_Order[i] : i \in 1 .. Len(C9_Order)}

\* C9: the steps of a pass complete in the fixed order, the step about to
\* run is the one after those completed, no footer field is looked up before
\* the footer was parsed in this pass, and no frame is read before count,
\* stride, size, element type and region size were set in this pass.
C9_StrictOrder ==
    /\ Len(steps) <= Len(C9_Order)
    /\ \A i \in 1 .. Len(steps) : steps[i] = C9_Order[i]
    /\ pc \in C9_StepNames => pc = C9_Order[Len(steps) + 1]
    /\ pc \in {"_readWavelengths", "_readFramesInfo", "_readRegionSize",
               "_readExposureTime"} => "_footerInfo" \in setInPass
    /\ (pc = "_readArray" \/ FrameReads # {} \/ "data" \in setInPass) =>
          {"nbOfFrames", "frameStride", "frameSize", "dataType",
           "regionSize", "exposureTime"} \subseteq setInPass

C9_Witness ==
    /\ pc = "idle" /\ outcome = "Decoded"
    /\ steps = C9_Order
    /\ Cardinality(FrameReads) = 2

\* C10: once a decode has succeeded, no later operation changes a decoded
\* attribute.
C10_DecodedNeverChanges ==
    [][outcome = "Decoded" => (self' = self /\ defined' = defined)]_vars

====
